---- MODULE Spec2Model ----
(***************************************************************************)
(* A model of the stock trading CLI (src/main.go): Load and filter the     *)
(* candidates, fan out one goroutine per candidate (Calculate + FetchNews),*)
(* fan the Selections in over a buffered channel, and Deliver them.        *)
(*                                                                         *)
(* float64 values are modelled as integers counting hundredths (0.15 is    *)
(* 15, 100.0 is 10000); Calculate is computed with exact rationals and     *)
(* rounded half away from zero as math.Round does.                         *)
(***************************************************************************)
EXTENDS Integers, Sequences, FiniteSets, TLC

\* The largest number of data rows of a csv file the model enumerates.
MaxRows == 3

----------------------------------------------------------------------------
(* Values *)

Abs(x) == IF x < 0 THEN -x ELSE x

\* math.Round of the rational n/d (d > 0): nearest integer, halves away from zero.
Round(n, d) == IF n >= 0 THEN (2 * n + d) \div (2 * d) ELSE -((2 * (-n) + d) \div (2 * d))

\* strconv.ParseFloat(text, 64) on the field texts the model enumerates: the value
\* in hundredths, or an error for a text that is no number.
ParseFloat(text) ==
  CASE text = "0.15"  -> [err |-> FALSE, val |-> 15]
    [] text = "0.05"  -> [err |-> FALSE, val |-> 5]
    [] text = "-0.2"  -> [err |-> FALSE, val |-> -20]
    [] text = "100.0" -> [err |-> FALSE, val |-> 10000]
    [] text = "50.0"  -> [err |-> FALSE, val |-> 5000]
    [] text = "20.0"  -> [err |-> FALSE, val |-> 2000]
    [] OTHER          -> [err |-> TRUE, val |-> 0]

\* The csv rows (ticker, gap, opening price) a file is made of.
HeaderRow == <<"Ticker", "Gap", "OpeningPrice">>
RowPool == { <<"AAA", "0.15", "100.0">>,
             <<"BBB", "0.05", "50.0">>,
             <<"", "-0.2", "20.0">>,
             <<"CCC", "abc", "20.0">>,
             <<"DDD", "0.15", "xyz">> }

RECURSIVE SeqsUpTo(_, _)
SeqsUpTo(S, n) ==
  IF n = 0 THEN { <<>> }
  ELSE LET shorter == SeqsUpTo(S, n - 1)
       IN shorter \cup { Append(s, x) : s \in { t \in shorter : Len(t) = n - 1 }, x \in S }

\* What os.Open and csv.ReadAll can give Load: an error, or the rows of the file: no
\* row at all (an empty file), or a header row followed by up to MaxRows data rows.
Files ==
  { [err |-> TRUE, rows |-> <<>>], [err |-> FALSE, rows |-> <<>>] } \cup
  { [err |-> FALSE, rows |-> <<HeaderRow>> \o data] : data \in SeqsUpTo(RowPool, MaxRows) }

\* The rows of Load's loop turned into stocks: a row whose gap or opening price does
\* not parse is skipped.
RECURSIVE ParseRows(_)
ParseRows(rows) ==
  IF rows = <<>> THEN <<>>
  ELSE LET row == Head(rows)
           gap == ParseFloat(row[2])
           openingPrice == ParseFloat(row[3])
       IN IF gap.err \/ openingPrice.err
          THEN ParseRows(Tail(rows))
          ELSE <<[Ticker |-> row[1], Gap |-> gap.val, OpeningPrice |-> openingPrice.val]>>
               \o ParseRows(Tail(rows))

\* Load(path): the error of os.Open / ReadAll, or the stocks of the rows after the
\* header row; slices.Delete(rows, 0, 1) panics (slice bounds out of range) when
\* there is no row to delete.
Load(file) ==
  IF file.err THEN [err |-> TRUE, panic |-> FALSE, stocks |-> <<>>]
  ELSE IF file.rows = <<>> THEN [err |-> FALSE, panic |-> TRUE, stocks |-> <<>>]
  ELSE [err |-> FALSE, panic |-> FALSE, stocks |-> ParseRows(Tail(file.rows))]

\* slices.DeleteFunc(stocks, |Gap| < .1): the stocks with a gap of at least 0.1, in order.
RECURSIVE FilterStocks(_)
FilterStocks(stocks) ==
  IF stocks = <<>> THEN <<>>
  ELSE IF Abs(Head(stocks).Gap) < 10
       THEN FilterStocks(Tail(stocks))
       ELSE <<Head(stocks)>> \o FilterStocks(Tail(stocks))

\* Program constants, in hundredths: maxLossPerTrade = 10000.0 * .02 = 200.0, and
\* profitPercent = .8.
maxLossPerTrade == 20000
profitPercent == 80

ZeroPosition ==
  [EntryPrice |-> 0, Shares |-> 0, TakeProfitPrice |-> 0, StopLossPrice |-> 0, Profit |-> 0]

\* Calculate(gapPercent, openingPrice), for 1 + gapPercent > 0 and a gap that is not 0.
\* profitFromGap is the rational num / den hundredths.
Calculate(gapPercent, openingPrice) ==
  LET num == -(profitPercent * openingPrice * gapPercent)
      den == 100 * (100 + gapPercent)
      shares == (maxLossPerTrade * den) \div Abs(num)
  IN [EntryPrice      |-> Round(openingPrice * 100, 100),
      Shares          |-> shares,
      TakeProfitPrice |-> Round(openingPrice * den + num, den),
      StopLossPrice   |-> Round(openingPrice * den - num, den),
      Profit          |-> Round(Abs(num) * shares, den)]

\* Selection{}: the zero value of Selection (a nil Articles slice is the empty list).
EmptySelection == [Ticker |-> "", Position |-> ZeroPosition, Articles |-> <<>>]

----------------------------------------------------------------------------
(* The news provider *)

\* What the upstream does with one request: the transport fails, or an http response
\* with a status code and a body comes back. A body is well-formed json or not, and
\* holds the items of its "data" array.
NewsItems == << [publishOn |-> 1, title |-> "h1"], [publishOn |-> 2, title |-> "h2"] >>
Responses ==
  { [transportErr |-> TRUE,  status |-> 0,   wellFormed |-> FALSE, data |-> <<>>],
    [transportErr |-> FALSE, status |-> 500, wellFormed |-> TRUE,  data |-> <<>>],
    [transportErr |-> FALSE, status |-> 200, wellFormed |-> TRUE,  data |-> <<>>],
    [transportErr |-> FALSE, status |-> 200, wellFormed |-> TRUE,  data |-> NewsItems],
    [transportErr |-> FALSE, status |-> 200, wellFormed |-> FALSE, data |-> NewsItems] }

\* json.NewDecoder(resp.Body).Decode(res): res.Data of a well-formed body; a body
\* that is not json leaves res.Data empty, and the error Decode returns is dropped.
Decode(resp) == IF resp.wellFormed THEN resp.data ELSE <<>>

\* FetchNews(ticker) when the upstream answers with resp.
FetchNews(resp) ==
  IF resp.transportErr THEN [err |-> TRUE, articles |-> <<>>]
  ELSE IF resp.status < 200 \/ resp.status > 299 THEN [err |-> TRUE, articles |-> <<>>]
  ELSE LET data == Decode(resp)
       IN [err |-> FALSE,
           articles |-> [i \in 1..Len(data) |->
                           [PublishOn |-> data[i].publishOn, Headline |-> data[i].title]]]

\* The tickers a request is made for: those of the stocks Load and the filter keep.
Tickers ==
  { s.Ticker : s \in { t[1] : t \in { FilterStocks(ParseRows(<<row>>)) : row \in RowPool } \ { <<>> } } }

----------------------------------------------------------------------------
(* State *)

VARIABLES
  provider,     \* ticker -> the upstream's response to a request for it
  mainpc,       \* where main is: "load", "loading", "loaded", "spawn", "range", "check", "deliver", "done",
                \* "aborted" (Load failed), "panic" (the process died of a runtime panic),
                \* "fatal" (the runtime found every goroutine asleep)
  stocks,       \* the filtered stocks
  spawned,      \* the number of goroutines the fan-out loop has started
  wpc,          \* per goroutine: "none", "run", "got", "stalled", "done", "panicked"
  wlocal,       \* per goroutine: its parameter s and its locals position, articles, err
  emitted,      \* per goroutine: the Selection it sent
  chanBuf,      \* selectionsChan: the buffered values, oldest first
  chanClosed,   \* selectionsChan: closed
  selections,   \* main's selections slice
  file,         \* opg.json: whether Deliver wrote it, and the json objects written
  run,          \* 1 in the first run of the program, 2 in a second run on the same input
  firstFile,    \* in the second run: what the first run left in opg.json
  loaded        \* Load's err, rows and stocks: set while Load runs and until main
                \* has filtered the stocks it returned

vars == <<provider, mainpc, stocks, spawned, wpc, wlocal, emitted, chanBuf, chanClosed,
          selections, file, run, firstFile, loaded>>

Workers == 1..Len(stocks)

\* A changed ChanCap: make(chan Selection, len(stocks)-1), a buffer one place short.
ChanCapOneShort == Len(stocks) - 1

\* cap(selectionsChan) = len(stocks)
ChanCap == Len(stocks)

NoFile == [written |-> FALSE, objects |-> <<>>]

NotLoaded == [err |-> FALSE, rows |-> <<>>, stocks |-> <<>>]

NoLocal ==
  [s |-> [Ticker |-> "", Gap |-> 0, OpeningPrice |-> 0],
   position |-> ZeroPosition, articles |-> <<>>, err |-> FALSE]

Init ==
  /\ provider \in [Tickers -> Responses]
  /\ mainpc = "load"
  /\ stocks = <<>>
  /\ spawned = 0
  /\ wpc = <<>>
  /\ wlocal = <<>>
  /\ emitted = <<>>
  /\ chanBuf = <<>>
  /\ chanClosed = FALSE
  /\ selections = <<>>
  /\ file = NoFile
  /\ run = 1
  /\ firstFile = NoFile
  /\ loaded = NotLoaded

----------------------------------------------------------------------------
(* main *)

\* Load, up to the return of r.ReadAll(): the file is whatever opg.csv holds.
MainOpen ==
  /\ mainpc = "load"
  /\ \E f \in Files : loaded' = [err |-> f.err, rows |-> f.rows, stocks |-> <<>>]
  /\ mainpc' = "loading"
  /\ UNCHANGED <<provider, stocks, spawned, wpc, wlocal, emitted, chanBuf, chanClosed,
                 selections, file, run, firstFile>>

\* A changed LoadFailed: main drops the error Load returns.
LoadFailedIgnored(result) == FALSE

\* main's if err != nil after Load.
LoadFailed(result) == result.err

\* The rest of Load and main's check of its error: a Load error ends the run, and so
\* does a panic in Load; else main holds the stocks Load returned.
MainLoad ==
  /\ mainpc = "loading"
  /\ LET result == Load(loaded)
     IN IF LoadFailed(result)
        THEN /\ mainpc' = "aborted"
             /\ UNCHANGED loaded
        ELSE IF result.panic
        THEN /\ mainpc' = "panic"
             /\ UNCHANGED loaded
        ELSE /\ mainpc' = "loaded"
             /\ loaded' = [loaded EXCEPT !.stocks = result.stocks]
  /\ UNCHANGED <<provider, stocks, spawned, wpc, wlocal, emitted, chanBuf, chanClosed,
                 selections, file, run, firstFile>>

\* main, from slices.DeleteFunc to make(chan Selection, len(stocks)).
MainFilter ==
  /\ mainpc = "loaded"
  /\ LET kept == FilterStocks(loaded.stocks)
     IN /\ stocks' = kept
        /\ wpc' = [i \in 1..Len(kept) |-> "none"]
        /\ wlocal' = [i \in 1..Len(kept) |-> NoLocal]
        /\ emitted' = [i \in 1..Len(kept) |-> EmptySelection]
  /\ loaded' = [loaded EXCEPT !.rows = <<>>, !.stocks = <<>>]
  /\ mainpc' = "spawn"
  /\ UNCHANGED <<provider, spawned, chanBuf, chanClosed, selections, file, run, firstFile>>

\* A changed WorkerArg: the goroutine reads the loop variable stock, which every
\* iteration shares, and not its own parameter s.
WorkerArgShared(i) == stocks[spawned]

\* The argument s the goroutine of the i-th iteration is started with.
WorkerArg(i) == stocks[i]

\* One iteration of the fan-out loop: go func(s, selected){...}(stock, selectionsChan);
\* after the last one main goes on to the range loop.
MainSpawn ==
  /\ mainpc = "spawn"
  /\ IF spawned < Len(stocks)
     THEN /\ spawned' = spawned + 1
          /\ wpc' = [wpc EXCEPT ![spawned + 1] = "run"]
          /\ UNCHANGED mainpc
     ELSE /\ mainpc' = "range"
          /\ UNCHANGED <<spawned, wpc>>
  /\ UNCHANGED <<provider, stocks, wlocal, emitted, chanBuf, chanClosed, selections, file, run, firstFile, loaded>>

\* for sel := range selectionsChan: receive the oldest value and append it; the loop
\* ends when the channel is closed and drained.
MainRecv ==
  /\ mainpc = "range"
  /\ IF chanBuf # <<>>
     THEN /\ selections' = Append(selections, Head(chanBuf))
          /\ chanBuf' = Tail(chanBuf)
          /\ mainpc' = "check"
     ELSE /\ chanClosed
          /\ mainpc' = "deliver"
          /\ UNCHANGED <<selections, chanBuf>>
  /\ UNCHANGED <<provider, stocks, spawned, wpc, wlocal, emitted, chanClosed, file, run, firstFile, loaded>>

\* The range loop's receive with an empty, open channel and no goroutine left to send
\* (each has returned): the runtime ends the process with "fatal error: all
\* goroutines are asleep - deadlock!".
MainDeadlock ==
  /\ mainpc = "range"
  /\ chanBuf = <<>>
  /\ ~chanClosed
  /\ \A w \in Workers : wpc[w] = "done"
  /\ mainpc' = "fatal"
  /\ UNCHANGED <<provider, stocks, spawned, wpc, wlocal, emitted, chanBuf, chanClosed,
                 selections, file, run, firstFile, loaded>>

\* A changed AllReceived: the channel is closed as soon as one value has arrived.
AllReceivedAfterFirst == Len(selections) >= 1

\* A changed AllReceived: the channel is closed one value early.
AllReceivedOffByOne == Len(selections) >= Len(stocks) - 1

\* len(selections) == len(stocks)
AllReceived == Len(selections) = Len(stocks)

\* if len(selections) == len(stocks) { close(selectionsChan) }: closing a closed
\* channel panics.
MainCheckClose ==
  /\ mainpc = "check"
  /\ IF AllReceived
     THEN IF chanClosed
          THEN /\ mainpc' = "panic"
               /\ UNCHANGED chanClosed
          ELSE /\ chanClosed' = TRUE
               /\ mainpc' = "range"
     ELSE /\ mainpc' = "range"
          /\ UNCHANGED chanClosed
  /\ UNCHANGED <<provider, stocks, spawned, wpc, wlocal, emitted, chanBuf, selections, file, run, firstFile, loaded>>

\* json.NewEncoder(file).Encode(selections): one object per Selection, the embedded
\* Position's fields promoted, a nil Articles slice written as null.
Encode(sels) ==
  [i \in 1..Len(sels) |->
     [Ticker          |-> sels[i].Ticker,
      EntryPrice      |-> sels[i].Position.EntryPrice,
      Shares          |-> sels[i].Position.Shares,
      TakeProfitPrice |-> sels[i].Position.TakeProfitPrice,
      StopLossPrice   |-> sels[i].Position.StopLossPrice,
      Profit          |-> sels[i].Position.Profit,
      Articles        |-> [null |-> sels[i].Articles = <<>>, items |-> sels[i].Articles]]]

\* Deliver(outputPath, selections): os.Create fails, or the encoded selections are
\* written; main returns either way.
MainDeliver ==
  /\ mainpc = "deliver"
  /\ \E createErr \in BOOLEAN :
       file' = IF createErr THEN NoFile ELSE [written |-> TRUE, objects |-> Encode(selections)]
  /\ mainpc' = "done"
  /\ UNCHANGED <<provider, stocks, spawned, wpc, wlocal, emitted, chanBuf, chanClosed,
                 selections, run, firstFile, loaded>>

----------------------------------------------------------------------------
(* The goroutine of one stock *)

\* A changed WorkerLocal: err is one variable the goroutines share (main's err,
\* assigned with = and not :=), so one goroutine's error shows in the others.
WorkerLocalSharedErr(s, resp) ==
  LET fetched == FetchNews(resp)
  IN [s |-> s,
      position |-> Calculate(s.Gap, s.OpeningPrice),
      articles |-> fetched.articles,
      err |-> fetched.err \/ \E w \in Workers : wlocal[w].err]

\* The goroutine's locals after position := Calculate(s.Gap, s.OpeningPrice) and
\* articles, err := FetchNews(s.Ticker), the upstream answering with resp; s is its
\* parameter.
WorkerLocal(s, resp) ==
  LET fetched == FetchNews(resp)
  IN [s |-> s,
      position |-> Calculate(s.Gap, s.OpeningPrice),
      articles |-> fetched.articles,
      err |-> fetched.err]

\* The goroutine up to the return of FetchNews.
WorkerFetch(w) ==
  /\ mainpc \notin {"done", "panic", "fatal"}
  /\ wpc[w] = "run"
  /\ LET s == WorkerArg(w)
     IN wlocal' = [wlocal EXCEPT ![w] = WorkerLocal(s, provider[s.Ticker])]
  /\ wpc' = [wpc EXCEPT ![w] = "got"]
  /\ UNCHANGED <<provider, mainpc, stocks, spawned, emitted, chanBuf, chanClosed,
                 selections, file, run, firstFile, loaded>>

\* client.Do never returns: &http.Client{} sets no Timeout and the request carries no
\* context, so a silent upstream holds the goroutine for ever.
WorkerStall(w) ==
  /\ mainpc \notin {"done", "panic", "fatal"}
  /\ wpc[w] = "run"
  /\ wpc' = [wpc EXCEPT ![w] = "stalled"]
  /\ UNCHANGED <<provider, mainpc, stocks, spawned, wlocal, emitted, chanBuf, chanClosed,
                 selections, file, run, firstFile, loaded>>

\* A changed WorkerSelection: the Position field is left out of the composite literal.
WorkerSelectionNoPosition(s, local) ==
  IF local.err THEN EmptySelection
  ELSE [Ticker |-> s.Ticker, Position |-> ZeroPosition, Articles |-> local.articles]

\* The Selection the goroutine sends: Selection{} after an error, else the ticker,
\* the position and the articles.
WorkerSelection(s, local) ==
  IF local.err THEN EmptySelection
  ELSE [Ticker |-> s.Ticker, Position |-> local.position, Articles |-> local.articles]

\* A changed WorkerSend: the goroutine appends its Selection to selections itself
\* instead of sending it on the channel.
WorkerSendAppends(w) ==
  /\ mainpc \notin {"done", "panic", "fatal"}
  /\ wpc[w] = "got"
  /\ ~chanClosed
  /\ LET sel == WorkerSelection(WorkerArg(w), wlocal[w])
     IN /\ selections' = Append(selections, sel)
        /\ emitted' = [emitted EXCEPT ![w] = sel]
  /\ wpc' = [wpc EXCEPT ![w] = "done"]
  /\ UNCHANGED <<provider, mainpc, stocks, spawned, wlocal, chanBuf, chanClosed, file, run, firstFile, loaded>>

\* selected <- ...: blocks while the buffer is full; a send on a closed channel
\* panics.
WorkerSend(w) ==
  /\ mainpc \notin {"done", "panic", "fatal"}
  /\ wpc[w] = "got"
  /\ IF chanClosed
     THEN /\ mainpc' = "panic"
          /\ UNCHANGED <<wpc, emitted, chanBuf>>
     ELSE /\ Len(chanBuf) < ChanCap
          /\ LET sel == WorkerSelection(WorkerArg(w), wlocal[w])
             IN /\ chanBuf' = Append(chanBuf, sel)
                /\ emitted' = [emitted EXCEPT ![w] = sel]
          /\ wpc' = [wpc EXCEPT ![w] = "done"]
          /\ UNCHANGED mainpc
  /\ UNCHANGED <<provider, stocks, spawned, wlocal, chanClosed, selections, file, run, firstFile, loaded>>

\* The program is run again on the same opg.csv, with the same upstream: Load and the
\* filter give the same stocks, and everything else starts afresh.
Rerun ==
  /\ mainpc = "done"
  /\ run = 1
  /\ run' = 2
  /\ firstFile' = file
  /\ mainpc' = "spawn"
  /\ spawned' = 0
  /\ wpc' = [i \in 1..Len(stocks) |-> "none"]
  /\ wlocal' = [i \in 1..Len(stocks) |-> NoLocal]
  /\ emitted' = [i \in 1..Len(stocks) |-> EmptySelection]
  /\ chanBuf' = <<>>
  /\ chanClosed' = FALSE
  /\ selections' = <<>>
  /\ file' = NoFile
  /\ UNCHANGED <<provider, stocks, loaded>>

Next ==
  \/ MainOpen
  \/ MainLoad
  \/ MainFilter
  \/ MainSpawn
  \/ MainRecv
  \/ MainDeadlock
  \/ MainCheckClose
  \/ MainDeliver
  \/ \E w \in Workers : WorkerFetch(w)
  \/ \E w \in Workers : WorkerStall(w)
  \/ \E w \in Workers : WorkerSend(w)

\* A panic in the goroutine of one stock: the function literal defers no recover, so
\* the runtime prints the panic and the whole process exits.
WorkerPanic(w) ==
  /\ mainpc \notin {"done", "panic", "fatal"}
  /\ wpc[w] \in {"run", "got"}
  /\ wpc' = [wpc EXCEPT ![w] = "panicked"]
  /\ mainpc' = "panic"
  /\ UNCHANGED <<provider, stocks, spawned, wlocal, emitted, chanBuf, chanClosed,
                 selections, file, run, firstFile, loaded>>

Spec == Init /\ [][Next]_vars

\* The program with a runtime panic raised in a goroutine.
SpecFault == Init /\ [][Next \/ \E w \in Workers : WorkerPanic(w)]_vars

\* One run followed by a second run on the same input.
SpecRerun == Init /\ [][Next \/ Rerun]_vars

----------------------------------------------------------------------------
(* Properties *)

Range(seq) == { seq[i] : i \in 1..Len(seq) }

Count(v, seq) == Cardinality({ i \in 1..Len(seq) : seq[i] = v })

\* The two sequences hold the same values the same number of times.
SameBag(a, b) ==
  /\ Len(a) = Len(b)
  /\ \A v \in Range(a) \cup Range(b) : Count(v, a) = Count(v, b)

\* main has left the range loop: selections is what Deliver is called with.
Handed == mainpc \in {"deliver", "done"}

\* The goroutines that have been started and have not sent their Selection.
InFlight == { w \in Workers : wpc[w] \in {"run", "got", "stalled"} }

\* What the stocks give when they are worked through one after the other, in order.
SequentialRun ==
  [i \in 1..Len(stocks) |->
     WorkerSelection(stocks[i], WorkerLocal(stocks[i], provider[stocks[i].Ticker]))]

\* C1: whatever the fetches return, the selections handed to Deliver are exactly the
\* Selections the goroutines sent, one for each stock, none lost and none twice, and
\* at no time does selections hold more than len(stocks) entries.
C1_ExactlyOneOutcomePerCandidate ==
  /\ Len(selections) <= Len(stocks)
  /\ Len(selections) + Len(chanBuf) = Cardinality({ w \in Workers : wpc[w] = "done" })
  /\ Handed => /\ Len(selections) = Len(stocks)
               /\ chanBuf = <<>>
               /\ \A w \in Workers : wpc[w] = "done"
               /\ SameBag(selections, emitted)

\* C1's case: a batch of at least two stocks, one fetch failed and one succeeded, is
\* handed to Deliver.
C1_Witness ==
  /\ mainpc = "deliver"
  /\ Len(stocks) >= 2
  /\ \E w \in Workers : wlocal[w].err
  /\ \E w \in Workers : ~wlocal[w].err

\* C2: the Selection sent after a failed fetch carries the Position Calculate gave
\* for its stock and an empty article list; when every fetch fails, no Selection handed
\* to Deliver has the zero Position.
C2_FailureCarriesPosition ==
  /\ \A w \in Workers :
       (wpc[w] = "done" /\ wlocal[w].err) =>
          /\ emitted[w].Position = Calculate(stocks[w].Gap, stocks[w].OpeningPrice)
          /\ emitted[w].Position # ZeroPosition
          /\ emitted[w].Articles = <<>>
  /\ (Handed /\ \A w \in Workers : wlocal[w].err) =>
        \A i \in 1..Len(selections) : selections[i].Position # ZeroPosition

\* C3: every Selection sent carries the ticker of the stock it was made for, after a
\* fetch that succeeded and after one that failed; for stocks with distinct tickers the
\* tickers handed to Deliver are those of the stocks, each once.
C3_OutcomeTaggedWithTicker ==
  /\ \A w \in Workers : wpc[w] = "done" => emitted[w].Ticker = stocks[w].Ticker
  /\ (Handed /\ \A i, j \in 1..Len(stocks) : stocks[i].Ticker = stocks[j].Ticker => i = j) =>
        /\ { selections[i].Ticker : i \in 1..Len(selections) } =
             { stocks[i].Ticker : i \in 1..Len(stocks) }
        /\ \A i, j \in 1..Len(selections) :
             selections[i].Ticker = selections[j].Ticker => i = j

\* C4: when a fetch never returns, the program does not come to rest waiting in the
\* range loop: it has handed its selections (at most len(stocks)) to Deliver, or it
\* can still take a step.
C4_StalledFetchDoesNotBlock ==
  (\E w \in Workers : wpc[w] = "stalled") =>
     /\ Len(selections) <= Len(stocks)
     /\ Handed \/ ENABLED Next

\* C5: for every number of stocks, none included, main never waits on the channel
\* while it is empty and open and every goroutine has returned.
C5_NeverWaitsWithNoSender ==
  ~(/\ mainpc = "range"
    /\ chanBuf = <<>>
    /\ ~chanClosed
    /\ \A w \in Workers : wpc[w] = "done")

\* A fixed limit on the goroutines at work that is smaller than the largest batch.
PoolSize == MaxRows - 1

\* C6: the goroutines started and not yet done sending never number more than the
\* fixed limit.
C6_BoundedWorkers == Cardinality(InFlight) <= PoolSize

\* C7: the selections handed to Deliver are in the order of the stocks.
C7_DeliveredInCandidateOrder ==
  Handed => selections = emitted

\* C8: the selections handed to Deliver, order aside, are those a run that works the
\* stocks through one at a time gives, however the goroutines interleave.
C8_SameBagAsSequentialRun ==
  Handed => SameBag(selections, SequentialRun)

\* C8's case: two goroutines or more, whose Selections reached main in another order
\* than that of the stocks.
C8_Witness ==
  /\ mainpc = "deliver"
  /\ Len(stocks) >= 2
  /\ selections # SequentialRun

\* C9: a second run on the same stocks with the same upstream writes the file the
\* first run wrote, entry for entry.
C9_RerunWritesSameFile ==
  (run = 2 /\ mainpc = "done" /\ file.written /\ firstFile.written) => file = firstFile

\* The responses FetchNews turns into an error, and those it turns into no articles.
FailingResponses == { r \in Responses : FetchNews(r).err }
EmptyResponses == { r \in Responses : ~FetchNews(r).err /\ FetchNews(r).articles = <<>> }

\* C10: for no stock of a batch (taken when the fan-out begins; the stocks do not
\* change afterwards) is the Selection sent after a failed fetch equal to the one sent
\* after a fetch that succeeded with no articles, and no two such Selections sent in
\* one run are equal.
C10_FailureDistinctFromEmptySuccess ==
  /\ (mainpc = "spawn" /\ spawned = 0) =>
       \A w \in Workers : \A failing \in FailingResponses : \A empty \in EmptyResponses :
          WorkerSelection(WorkerArg(w), WorkerLocal(WorkerArg(w), failing))
            # WorkerSelection(WorkerArg(w), WorkerLocal(WorkerArg(w), empty))
  /\ \A w1, w2 \in Workers :
       (/\ wpc[w1] = "done" /\ wlocal[w1].err
        /\ wpc[w2] = "done" /\ ~wlocal[w2].err /\ wlocal[w2].articles = <<>>) =>
          emitted[w1] # emitted[w2]

\* C10's case: one goroutine has sent after a failed fetch, and another, whose stock
\* has the empty ticker, after a fetch that gave no articles.
C10_Witness ==
  \E w1, w2 \in Workers :
    /\ wpc[w1] = "done" /\ wlocal[w1].err
    /\ wpc[w2] = "done" /\ ~wlocal[w2].err /\ wlocal[w2].articles = <<>>
    /\ stocks[w2].Ticker = ""

\* The upstream's response to the request of goroutine w.
ResponseOf(w) == provider[stocks[w].Ticker]

\* The fetch of a response fails: the transport failed, the status is not 2xx, or the
\* body is not well-formed json.
FailedFetch(resp) ==
  resp.transportErr \/ resp.status < 200 \/ resp.status > 299 \/ ~resp.wellFormed

\* C11: whenever the transport fails, the status is not 2xx or the body cannot be
\* decoded, FetchNews returns an error and the goroutine sends the failure Selection;
\* a body that is not json never counts as a fetch with no articles.
C11_EveryFailureIsReported ==
  \A w \in Workers :
    (wpc[w] \in {"got", "done"} /\ FailedFetch(ResponseOf(w))) =>
       /\ wlocal[w].err
       /\ wpc[w] = "done" => emitted[w] = EmptySelection

\* C12: a panic in one goroutine does not end the process: the run goes on to a
\* failure Selection for that stock or to an error main reports, and main is not left
\* waiting in the range loop.
C12_WorkerPanicIsContained ==
  (\E w \in Workers : wpc[w] = "panicked") =>
     /\ mainpc # "panic"
     /\ Handed \/ ENABLED Next

\* C13: the channel is closed only when every goroutine has sent and main has
\* received all len(stocks) values, it is closed by the time main leaves the loop, and
\* no panic follows a close (a send on the closed channel, a second close).
C13_ClosedOnceAfterAllSends ==
  /\ chanClosed => /\ \A w \in Workers : wpc[w] = "done"
                   /\ spawned = Len(stocks)
                   /\ Len(selections) = Len(stocks)
                   /\ chanBuf = <<>>
  /\ Handed => chanClosed
  /\ mainpc = "panic" => ~chanClosed

\* C13's case: the channel has been closed after two or more goroutines sent, one
\* after a failed fetch and one after a fetch that succeeded.
C13_Witness ==
  /\ chanClosed
  /\ Len(stocks) >= 2
  /\ \E w \in Workers : wlocal[w].err
  /\ \E w \in Workers : ~wlocal[w].err

\* C14: a goroutine that is about to send finds room in the buffer: the values in the
\* channel never number more than len(stocks), there are len(stocks) goroutines, and
\* the values sent so far are one for each goroutine that is done.
C14_SendNeverBlocks ==
  /\ Len(chanBuf) <= Len(stocks)
  /\ \A w \in Workers :
       (wpc[w] = "got" /\ mainpc \notin {"done", "panic", "fatal"}) => ENABLED WorkerSend(w)
  /\ mainpc \notin {"load", "loading", "loaded"} => Len(wpc) = Len(stocks)
  /\ Len(chanBuf) + Len(selections) = Cardinality({ w \in Workers : wpc[w] = "done" })

\* C14's case: every other goroutine's value is still in the buffer when the last
\* goroutine is about to send.
C14_Witness ==
  /\ Len(stocks) >= 2
  /\ Len(chanBuf) = Len(stocks) - 1
  /\ \E w \in Workers : wpc[w] = "got"

\* C15: when main has left the range loop, every goroutine has been started and has
\* sent its Selection: none is fetching, stalled or waiting to send.
C15_NoWorkerOutlivesTheLoop ==
  Handed => /\ spawned = Len(stocks)
            /\ InFlight = {}
            /\ \A w \in Workers : wpc[w] \notin {"none", "panicked"}

\* C15's case: main leaves the loop of a batch of three stocks or more.
C15_Witness ==
  /\ mainpc = "deliver"
  /\ Len(stocks) >= 3

\* C16: goroutine i works on stock i, its own parameter: every goroutine past its
\* fetch holds the stock of its iteration, and when main leaves the loop the stocks the
\* goroutines worked on are the stocks, each once and in order.
C16_OneWorkerPerCandidate ==
  /\ \A w \in Workers : wpc[w] \in {"got", "done"} => wlocal[w].s = stocks[w]
  /\ \A w \in Workers : wpc[w] # "none" => w <= spawned
  /\ Handed => [w \in 1..Len(wlocal) |-> wlocal[w].s] = stocks

\* C16's case: two goroutines with different stocks have fetched while the fan-out
\* loop is still running.
C16_Witness ==
  /\ mainpc = "spawn"
  /\ \E w1, w2 \in Workers :
       /\ wpc[w1] \in {"got", "done"}
       /\ wpc[w2] \in {"got", "done"}
       /\ stocks[w1] # stocks[w2]


\* What goroutine w owes for its own stock and its own response, whatever the other
\* goroutines met.
OwnOutcome(w) ==
  LET fetched == FetchNews(ResponseOf(w))
  IN  IF fetched.err
      THEN EmptySelection
      ELSE [Ticker |-> stocks[w].Ticker,
            Position |-> Calculate(stocks[w].Gap, stocks[w].OpeningPrice),
            Articles |-> fetched.articles]

\* C17: a failed fetch stays with its goroutine: every Selection sent is the one its
\* own stock and its own response give, whether or not another fetch failed, and a
\* failed fetch neither ends the process nor closes the channel early.
C17_FailureAbsorbedLocally ==
  /\ \A w \in Workers : wpc[w] = "done" => emitted[w] = OwnOutcome(w)
  /\ (\E w \in Workers : wlocal[w].err) =>
        /\ mainpc \notin {"aborted", "panic"}
        /\ chanClosed => \A w \in Workers : wpc[w] = "done"

\* C17's case: one goroutine has sent after a failed fetch and another has sent after
\* a fetch that succeeded with articles.
C17_Witness ==
  \E w1, w2 \in Workers :
    /\ wpc[w1] = "done" /\ wlocal[w1].err
    /\ wpc[w2] = "done" /\ ~wlocal[w2].err
    /\ emitted[w2].Ticker # ""
    /\ emitted[w2].Articles # emitted[w1].Articles

\* C18: when Load returns an error, main prints it and returns: the stocks are never
\* filtered, no channel is made, no goroutine is started, nothing is received or
\* written, and the process takes no further step.
C18_LoadFailureAborts ==
  /\ loaded.err =>
        /\ mainpc \in {"loading", "aborted"}
        /\ stocks = <<>> /\ spawned = 0 /\ wpc = <<>>
        /\ chanBuf = <<>> /\ ~chanClosed
        /\ selections = <<>> /\ file = NoFile
  /\ mainpc = "aborted" => loaded.err /\ ~ENABLED Next

\* C18's case: main has returned after Load's error.
C18_Witness ==
  /\ mainpc = "aborted"
  /\ loaded.err


\* C19: selections starts empty; the only step that changes it is main's receive, which
\* appends the value at the head of the channel and changes no goroutine; every value
\* taken from the channel is appended; and once main has left the loop selections
\* stays as it is.
C19_ResultSetOwnedByMain ==
  /\ selections = <<>>
  /\ [][ /\ selections' # selections =>
              /\ mainpc = "range"
              /\ chanBuf # <<>>
              /\ selections' = Append(selections, Head(chanBuf))
              /\ chanBuf' = Tail(chanBuf)
              /\ wpc' = wpc
         /\ Len(chanBuf') < Len(chanBuf) => selections' = Append(selections, Head(chanBuf))
         /\ Handed => selections' = selections ]_vars

\* C19's case: main has already received a value, another waits in the channel and a
\* goroutine is about to send.
C19_Witness ==
  /\ mainpc = "range"
  /\ Len(selections) >= 1
  /\ chanBuf # <<>>
  /\ \E w \in Workers : wpc[w] = "got"


\* The data rows of a file whose gap and opening price are both numbers, as stocks.
ExpectedStocks(rows) ==
  LET parses(row) == ~ParseFloat(row[2]).err /\ ~ParseFloat(row[3]).err
      kept == SelectSeq(Tail(rows), parses)
  IN  [i \in 1..Len(kept) |-> [Ticker       |-> kept[i][1],
                               Gap          |-> ParseFloat(kept[i][2]).val,
                               OpeningPrice |-> ParseFloat(kept[i][3]).val]]

\* The first half of C20 alone: what Load returns for a file that has a header row.
LoadKeepsParsableRows ==
  mainpc = "loaded" => loaded.rows # <<>> /\ loaded.stocks = ExpectedStocks(loaded.rows)

\* C20: Load returns the data rows that parse, in file order, and for every file that
\* could be read, one with no rows included, it returns and does not panic.
C20_LoadReturnsParsableRows ==
  /\ LoadKeepsParsableRows
  /\ ~loaded.err => ~(mainpc = "panic" /\ spawned = 0)

====
